---------------------------- MODULE Spec2Model ----------------------------
(***************************************************************************)
(* Photo ingestion pipeline of the gallery backend: file_handler.py        *)
(* (validation), routes_admin.py (upload / delete handlers on the          *)
(* categories collection) and telegram_service.py (Real / Mock storage).   *)
(*                                                                         *)
(* Text values whose characters the code inspects (filenames, the bot      *)
(* token) are sequences of one-character strings.  Values the code only    *)
(* compares as a whole (mime types, error details) are TLA+ strings.       *)
(***************************************************************************)
EXTENDS Integers, Sequences, FiniteSets, TLC

\* ------------------------------------------------------------------ bounds
\* number of upload requests that can be in flight at the same time
NumReq == 2
\* total number of upload requests the clients submit (Spec)
MaxUploads == 2
\* total number of category requests the clients submit (Spec)
MaxCategoryOps == 1
\* total number of upload requests the clients submit (SpecInputs)
MaxInputUploads == 2
\* total number of upload requests the clients submit (SpecGallery)
MaxGalleryUploads == 3
\* total number of delete_photo requests the clients submit (SpecGallery)
MaxDeletes == 2
\* total number of uploads, by request or by direct call (SpecService)
MaxServiceUploads == 2
\* total number of upload requests the clients submit (SpecUpdate)
MaxUpdateUploads == 2

\* --------------------------------------------------------- python values
\* Python's None where the value is otherwise a TLA+ string
None == "None"
\* Python's None where the value is otherwise a tuple
NoneStr == <<"None">>

Requests == 1 .. NumReq

\* ------------------------------------------------------- file_handler.py
ALLOWED_EXTENSIONS == { <<".", "p", "n", "g">> }
ALLOWED_MIME_TYPES == { "image/png" }
MAX_FILE_SIZE == 10 * 1024 * 1024

\* str.lower() on the characters the inputs use
LowerChar(c) ==
    CASE c = "P" -> "p"
      [] c = "N" -> "n"
      [] c = "G" -> "g"
      [] c = "X" -> "x"
      [] OTHER -> c

Lower(s) == [i \in 1 .. Len(s) |-> LowerChar(s[i])]

\* '.' in s
HasDot(s) == \E i \in 1 .. Len(s) : s[i] = "."

\* index of the last '.' of s (0 when there is none)
LastDot(s) ==
    IF HasDot(s)
    THEN CHOOSE i \in 1 .. Len(s) :
            /\ s[i] = "."
            /\ \A j \in (i + 1) .. Len(s) : s[j] # "."
    ELSE 0

\* s.split('.')[-1]
SplitLast(s) == SubSeq(s, LastDot(s) + 1, Len(s))

\* file_ext = filename.lower().split('.')[-1] if '.' in filename else ''
FileExt(filename) ==
    IF HasDot(filename) THEN SplitLast(Lower(filename)) ELSE << >>

\* validate_file with a faulty extension test: the name is not lower-cased
\* and any name ending in "png" is taken for a .png file
validate_file_suffix(file) ==
    IF file.filename = NoneStr \/ file.filename = << >>
    THEN "No file provided"
    ELSE IF Len(file.filename) < 3
            \/ SubSeq(file.filename, Len(file.filename) - 2, Len(file.filename))
                 # <<"p", "n", "g">>
    THEN "Invalid file extension"
    ELSE IF file.content_type # None /\ file.content_type # ""
            /\ file.content_type \notin ALLOWED_MIME_TYPES
    THEN "Invalid file type"
    ELSE None

\* FileHandler.validate_file: the error message, or None when valid
validate_file(file) ==
    IF file.filename = NoneStr \/ file.filename = << >>
    THEN "No file provided"
    ELSE IF (<<".">> \o FileExt(file.filename)) \notin ALLOWED_EXTENSIONS
    THEN "Invalid file extension"
    ELSE IF file.content_type # None /\ file.content_type # ""
            /\ file.content_type \notin ALLOWED_MIME_TYPES
    THEN "Invalid file type"
    ELSE None

\* --------------------------------------------------------- byte strings
\* The byte strings the clients send, each named by a number:
\*   1  the empty byte string
\*   2  five bytes of text
\*   3  the PNG encoding of picture 1      4  the PNG encoding of picture 2
\*   5  a JPEG encoding of picture 1
\*   6  the PNG encoding of picture 3, larger than MAX_FILE_SIZE
\*   7  random bytes, larger than MAX_FILE_SIZE
ByteStrings == 1 .. 7
NoBytes == 0

\* len(file_content)
Size(b) ==
    CASE b = 1 -> 0
      [] b = 2 -> 5
      [] b = 3 -> 100
      [] b = 4 -> 100
      [] b = 5 -> 90
      [] b = 6 -> MAX_FILE_SIZE + 1
      [] b = 7 -> MAX_FILE_SIZE + 1
      [] OTHER -> 0

\* the picture Image.open decodes from b (0: Pillow raises, b is no image)
Picture(b) ==
    CASE b = 3 -> 1
      [] b = 4 -> 2
      [] b = 5 -> 1
      [] b = 6 -> 3
      [] OTHER -> 0

\* image.save(buffer, format="PNG"): the PNG encoding of a picture
SavePng(pic) ==
    CASE pic = 1 -> 3
      [] pic = 2 -> 4
      [] pic = 3 -> 6
      [] OTHER -> NoBytes

\* Image.open(io.BytesIO(file_content)) succeeds
Decodes(b) == Picture(b) # 0

\* the "Ensure valid PNG via Pillow" block of the upload handlers
Normalize(b) == SavePng(Picture(b))

\* filetype.guess(file_content).mime, None when no signature is recognised
Sniff(b) ==
    CASE b = 3 -> "image/png"
      [] b = 4 -> "image/png"
      [] b = 5 -> "image/jpeg"
      [] b = 6 -> "image/png"
      [] OTHER -> None

\* upload_file.filename or "unknown"
FilenameOrUnknown(filename) ==
    IF filename = NoneStr \/ filename = << >>
    THEN <<"u", "n", "k", "n", "o", "w", "n">>
    ELSE filename

\* what validate_and_read_upload gives its caller: the HTTPException it
\* raises, or the tuple (file_content, mime_type, filename) it returns
Rejected(status, detail) ==
    [status |-> status, detail |-> detail,
     file_content |-> NoBytes, mime_type |-> None, filename |-> NoneStr]

Accepted(file_content, mime_type, filename) ==
    [status |-> 200, detail |-> None,
     file_content |-> file_content, mime_type |-> mime_type,
     filename |-> filename]

\* FileHandler.validate_and_read_upload.  read_error: the exception raised
\* by upload_file.read(), None when it returns file_content; sniffer: whether
\* `import filetype` succeeds
validate_and_read_upload(upload_file, file_content, read_error, sniffer) ==
    LET filename == FilenameOrUnknown(upload_file.filename)
        mime_type == upload_file.content_type
        kind == Sniff(file_content)
    IN  IF read_error # None
        THEN Rejected(500, "Error processing file upload")
        ELSE IF Size(file_content) > MAX_FILE_SIZE
        THEN Rejected(400, "File too large. Maximum size is 10MB")
        ELSE IF Size(file_content) = 0
        THEN Rejected(400, "File is empty")
        ELSE IF (<<".">> \o FileExt(filename)) \notin ALLOWED_EXTENSIONS
        THEN Rejected(400, "Invalid file extension")
        ELSE IF mime_type \notin ALLOWED_MIME_TYPES
        THEN IF sniffer = "installed"
             THEN IF kind # None /\ kind \in ALLOWED_MIME_TYPES
                  THEN Accepted(file_content, kind, filename)
                  ELSE Rejected(400, "Invalid file type")
             ELSE Accepted(file_content, mime_type, filename)
        ELSE Accepted(file_content, mime_type, filename)

\* --------------------------------------------------- telegram_service.py
DEFAULT_BOT_TOKEN ==
    <<"m", "o", "c", "k", "_", "b", "o", "t", "_", "t", "o", "k", "e", "n",
      "_", "1", "2", "3", "4", "5">>

MOCK_PREFIX == <<"m", "o", "c", "k", "_">>

\* the values of TELEGRAM_BOT_TOKEN the process can be started with
\* (NoneStr: the variable is not set)
EnvTokens ==
    { NoneStr,
      << >>,
      <<"m", "o", "c", "k">>,
      <<"m", "o", "c", "k", "_", "x">>,
      <<"7", ":", "A">> }

\* str.startswith
StartsWith(s, p) == Len(s) >= Len(p) /\ SubSeq(s, 1, Len(p)) = p

\* os.environ.get('TELEGRAM_BOT_TOKEN', 'mock_bot_token_12345')
EnvGet(env, default) == IF env = NoneStr THEN default ELSE env

\* mock mode taken from the presence of the variable, not from the token
MockModeByAbsence(env) ==
    [bot_token |-> EnvGet(env, DEFAULT_BOT_TOKEN), mock_mode |-> env = NoneStr]

\* TelegramService.__init__
TelegramService(env) ==
    [bot_token |-> EnvGet(env, DEFAULT_BOT_TOKEN),
     mock_mode |-> StartsWith(EnvGet(env, DEFAULT_BOT_TOKEN), MOCK_PREFIX)]

\* hashlib.md5(file_content).hexdigest(), the hash taken as injective
Md5(b) == <<"md5", b>>

\* base64.b64encode(file_content).decode('utf-8')
B64Encode(b) == <<"base64", b>>

\* a mock branch whose file id is the hash of the length and the mime type
\* of the content, not of the content itself
MockUploadHashesSize(file_content, mime_type) ==
    [file_url |-> <<"data:", mime_type, ";base64,", B64Encode(file_content)>>,
     telegram_file_id |->
        <<"AgACAgIAAxkBAAI_", <<"md5", Size(file_content), mime_type>>, "_mock">>,
     file_size |-> Size(file_content),
     mime_type |-> mime_type]

\* the mock branch of TelegramService.upload_photo
MockUpload(file_content, mime_type) ==
    [file_url |-> <<"data:", mime_type, ";base64,", B64Encode(file_content)>>,
     telegram_file_id |-> <<"AgACAgIAAxkBAAI_", Md5(file_content), "_mock">>,
     file_size |-> Size(file_content),
     mime_type |-> mime_type]

\* what `await telegram_service.upload_photo(...)` gives its caller: the
\* 4-tuple it returns, or the exception it raises
NoResult ==
    [file_url |-> NoneStr, telegram_file_id |-> NoneStr, file_size |-> 0,
     mime_type |-> None]

Returned(result) == [raised |-> None, result |-> result]

Raised(error) == [raised |-> error, result |-> NoResult]

\* an except branch that answers a failure with the mock result
UploadPhotoExceptFallback(file_content, mime_type, error) ==
    Returned(MockUpload(file_content, mime_type))

\* `except Exception as e: logger.error(...); raise` of upload_photo
UploadPhotoExcept(file_content, mime_type, error) == Raised(error)

\* what the remote sendPhoto call can do
SendOutcomes == {"ok", "http_error", "ok_false", "timeout", "malformed"}
\* what the remote getFile call can do
GetFileOutcomes == {"ok", "http_error", "ok_false", "exception"}

\* _get_file_url that hands back a URL whatever the remote answered
GetFileUrlAlways(service, outcome, file_path) ==
    <<"https://api.telegram.org/file/bot", service.bot_token, "/", file_path>>

\* TelegramService._get_file_url: the URL, or None on every failure
GetFileUrl(service, outcome, file_path) ==
    IF outcome = "ok"
    THEN <<"https://api.telegram.org/file/bot", service.bot_token, "/", file_path>>
    ELSE NoneStr

\* sendPhoto answered by raising the same error as a failed getFile
SendPhotoErrorSame(outcome) == "Failed to get file URL"

\* the exception text upload_photo raises for a failed sendPhoto
SendPhotoError(outcome) ==
    CASE outcome = "http_error" -> "Telegram API error"
      [] outcome = "ok_false" -> "Telegram API error"
      [] outcome = "timeout" -> "TimeoutError"
      [] outcome = "malformed" -> "KeyError"
      [] OTHER -> None

\* a delete_photo that reports failure where Telegram offers no deletion
DeletePhotoUnsupported(service, stored, file_id) ==
    [ok |-> service.mock_mode, channel |-> stored]

\* TelegramService.delete_photo: the value returned, and the files of the
\* channel after the call (stored: the files before it)
DeletePhoto(service, stored, file_id) ==
    IF service.mock_mode
    THEN [ok |-> TRUE, channel |-> stored]
    ELSE [ok |-> TRUE, channel |-> stored]

\* the default of the parameter max_size_mb of TelegramService.validate_file
DEFAULT_MAX_SIZE_MB == 10

\* allowed_types of TelegramService.validate_file
ALLOWED_TYPES ==
    { "image/jpeg", "image/jpg", "image/png", "image/gif", "image/webp" }

\* TelegramService.validate_file: the pair (is_valid, error_message), the
\* message as the pieces of its f-string
TelegramValidateFile(file_content, mime_type, max_size_mb) ==
    IF Size(file_content) > max_size_mb * 1024 * 1024
    THEN [is_valid |-> FALSE,
          message |-> <<"File too large. Maximum size is ", max_size_mb, "MB">>]
    ELSE IF Size(file_content) = 0
    THEN [is_valid |-> FALSE, message |-> <<"File is empty">>]
    ELSE IF mime_type \notin ALLOWED_TYPES
    THEN [is_valid |-> FALSE,
          message |-> <<"Invalid file type. Allowed: ", ALLOWED_TYPES>>]
    ELSE [is_valid |-> TRUE, message |-> <<"">>]

\* ------------------------------------------------------ client inputs
Filenames ==
    { NoneStr,
      << >>,
      <<"x", ".", "p", "n", "g">>,
      <<"X", ".", "P", "N", "G">>,
      <<"x", ".", "p", "n", "g", ".", "j", "p", "g">>,
      <<"x", "p", "n", "g">> }

ContentTypes == { None, "image/png", "image/jpeg" }

\* the ids create_category generates, in the order it generates them
CategoryIds == { "c1", "c2" }

Slots == { "before", "after" }

\* ------------------------------------------------------------- models.py
\* Photo(file_url=..., telegram_file_id=..., file_size=..., mime_type=...)
\* with id = str(uuid.uuid4()), a fresh id
Photo(uuid, result) ==
    [id |-> uuid,
     telegram_file_id |-> result.telegram_file_id,
     file_url |-> result.file_url,
     file_size |-> result.file_size,
     mime_type |-> result.mime_type]

\* an id generator that hands out the same id again after two ids
Uuid4Repeats(no) == no % 2

\* str(uuid.uuid4()): an id no other call returns; the n-th upload request
\* is given the n-th id
Uuid4(no) == no

\* the file_id Telegram gives the photo of the n-th upload request
RemoteFileId(no) == <<"file_id", no>>

\* Category(**category.model_dump(), photos_before=[], photos_after=[])
Category(name, sentences) ==
    [name |-> name,
     sentences |-> sentences,
     photos_before |-> << >>,
     photos_after |-> << >>]

\* ------------------------------------------------ the categories collection
\* field = f"photos_{photo_type}"
Field(photo_type) ==
    IF photo_type = "before" THEN "photos_before" ELSE "photos_after"

\* $push run as an upsert: a document is created when none matches
PushUpsert(docs, category_id, field, photo) ==
    IF category_id \in DOMAIN docs
    THEN [docs |-> [docs EXCEPT ![category_id][field] = Append(@, photo)],
          matched_count |-> 1]
    ELSE [docs |-> [c \in DOMAIN docs \cup {category_id} |->
                       IF c = category_id
                       THEN [[name |-> "", sentences |-> << >>,
                              photos_before |-> << >>, photos_after |-> << >>]
                                EXCEPT ![field] = <<photo>>]
                       ELSE docs[c]],
          matched_count |-> 0]

\* $push that replaces the array by the one new element
PushOverwrite(docs, category_id, field, photo) ==
    IF category_id \in DOMAIN docs
    THEN [docs |-> [docs EXCEPT ![category_id][field] = <<photo>>],
          matched_count |-> 1]
    ELSE [docs |-> docs, matched_count |-> 0]

\* db.categories.update_one({"id": category_id}, {"$push": {field: photo}})
UpdateOnePush(docs, category_id, field, photo) ==
    IF category_id \in DOMAIN docs
    THEN [docs |-> [docs EXCEPT ![category_id][field] = Append(@, photo)],
          matched_count |-> 1]
    ELSE [docs |-> docs, matched_count |-> 0]

\* $pull that drops the first element of the array when the id is in it
PullPopsFirst(docs, category_id, field, photo_id) ==
    IF category_id \in DOMAIN docs
    THEN [docs |-> [docs EXCEPT ![category_id][field] =
                        IF \E i \in 1 .. Len(@) : @[i].id = photo_id
                        THEN Tail(@) ELSE @],
          matched_count |-> 1]
    ELSE [docs |-> docs, matched_count |-> 0]

\* $pull that counts a document as matched only when an element was removed
PullMatchesOnRemoval(docs, category_id, field, photo_id) ==
    IF category_id \in DOMAIN docs
       /\ \E i \in 1 .. Len(docs[category_id][field]) :
              docs[category_id][field][i].id = photo_id
    THEN [docs |-> [docs EXCEPT ![category_id][field] =
                        SelectSeq(@, LAMBDA p : p.id # photo_id)],
          matched_count |-> 1]
    ELSE [docs |-> docs, matched_count |-> 0]

\* db.categories.update_one({"id": category_id},
\*                          {"$pull": {field: {"id": photo_id}}})
UpdateOnePull(docs, category_id, field, photo_id) ==
    IF category_id \in DOMAIN docs
    THEN [docs |-> [docs EXCEPT ![category_id][field] =
                        SelectSeq(@, LAMBDA p : p.id # photo_id)],
          matched_count |-> 1]
    ELSE [docs |-> docs, matched_count |-> 0]

\* an update written as the replacement of the whole document by a new
\* Category with the name and the sentences
SetReplacesDocument(docs, category_id, update_data) ==
    IF category_id \in DOMAIN docs
    THEN [docs |-> [docs EXCEPT ![category_id] =
                        Category(IF update_data.name # None
                                 THEN update_data.name ELSE @.name,
                                 IF update_data.sentences # NoneStr
                                 THEN update_data.sentences ELSE @.sentences)],
          matched_count |-> 1]
    ELSE [docs |-> docs, matched_count |-> 0]

\* db.categories.update_one({"id": category_id}, {"$set": update_data}),
\* update_data holding the fields of the CategoryUpdate that are not None
UpdateOneSet(docs, category_id, update_data) ==
    IF category_id \in DOMAIN docs
    THEN [docs |-> [docs EXCEPT
                      ![category_id].name =
                          IF update_data.name # None
                          THEN update_data.name ELSE @,
                      ![category_id].sentences =
                          IF update_data.sentences # NoneStr
                          THEN update_data.sentences ELSE @],
          matched_count |-> 1]
    ELSE [docs |-> docs, matched_count |-> 0]

\* every Photo of every list of every category
PhotosOf(docs) ==
    UNION { { docs[c][f][i] : i \in 1 .. Len(docs[c][f]) } :
            c \in DOMAIN docs, f \in {"photos_before", "photos_after"} }

\* ------------------------------------------------------------ responses
NoResponse == [status |-> 0, detail |-> None, error |-> None, success |-> FALSE]

\* raise HTTPException(status_code=status, detail=detail)
HTTPException(status, detail, error) ==
    [status |-> status, detail |-> detail, error |-> error, success |-> FALSE]

\* UploadResponse(success=True, photo=photo, message=...)
UploadResponse ==
    [status |-> 200, detail |-> "Photo uploaded successfully", error |-> None,
     success |-> TRUE]

\* ---------------------------------------------------------------- state
VARIABLES
    environ,            \* TELEGRAM_BOT_TOKEN of the process environment
    telegram_service,   \* the TelegramService singleton
    categories,         \* db.categories: category id -> document
    created,            \* the category ids create_category has generated
    req,                \* the upload requests in flight
    channel,            \* the file ids of the photos stored in the Telegram channel
    started,            \* number of uploads begun so far (requests and
                        \* direct calls of upload_photo)
    deletes,            \* number of delete_photo requests submitted so far
    cat_ops,            \* number of category create / delete requests so far
    last_delete,        \* the latest delete_photo request and its response
    service_call,       \* the latest direct call of a function of
                        \* telegram_service or file_handler, with its result
    update_req          \* the update_category request in flight

vars ==
    <<environ, telegram_service, categories, created, req, channel,
      started, deletes, cat_ops, last_delete, service_call, update_req>>

IdleReq ==
    [pc |-> "idle",
     no |-> 0,
     slot |-> None,
     category_id |-> None,
     file |-> [filename |-> NoneStr, content_type |-> None],
     payload |-> NoBytes,
     file_content |-> NoBytes,
     decoded |-> FALSE,
     fault |-> None,
     storage |-> FALSE,
     send |-> None,
     getfile |-> None,
     file_id |-> NoneStr,
     photo |-> << >>,
     db_calls |-> << >>,
     response |-> NoResponse]

NoDelete ==
    [category_id |-> None, photo_id |-> 0, photo_type |-> None,
     db_calls |-> << >>, status |-> 0]

\* no update_category request is being handled
NoUpdate ==
    [pc |-> "idle",
     category_id |-> None,
     update_data |-> [name |-> None, sentences |-> NoneStr],
     status |-> 0,
     returned |-> << >>]

\* no service function has been called directly
NoCall == [op |-> None, args |-> [none |-> TRUE], ret |-> [none |-> TRUE]]

InitWith(tokens) ==
    /\ environ \in tokens
    /\ telegram_service = TelegramService(environ)
    /\ categories = [c \in {"c1"} |-> Category("n1", << >>)]
    /\ created = {"c1"}
    /\ req = [r \in Requests |-> IdleReq]
    /\ channel = {}
    /\ started = 0
    /\ deletes = 0
    /\ cat_ops = 0
    /\ last_delete = NoDelete
    /\ service_call = NoCall
    /\ update_req = NoUpdate

\* the handler of request r ends with this response
Finish(r, fields, response) ==
    req' = [req EXCEPT ![r] = [fields EXCEPT !.pc = "done", !.response = response]]

\* upload_photo_before / upload_photo_after up to `await file.read()`:
\* the request arrives and validate_file runs
UploadValidate(r, files, max_uploads) ==
    /\ req[r].pc = "idle"
    /\ started < max_uploads
    /\ started' = started + 1
    /\ \E slot \in Slots, category_id \in CategoryIds, file \in files :
         LET me == [IdleReq EXCEPT !.no = started + 1,
                                   !.slot = slot,
                                   !.category_id = category_id,
                                   !.file = file]
             validation_error == validate_file(file)
         IN  IF validation_error # None
             THEN Finish(r, me, HTTPException(400, validation_error, None))
             ELSE req' = [req EXCEPT ![r] = [me EXCEPT !.pc = "read"]]
    /\ UNCHANGED <<environ, telegram_service, update_req, service_call, categories, created, channel,
                   deletes, cat_ops, last_delete>>

\* the upload handlers after `await telegram_service.upload_photo(...)`:
\* an exception ends the request with 500, a result is made a Photo and the
\* $push is issued
AfterUpload(r, me, ret) ==
    IF ret.raised # None
    THEN Finish(r, me, HTTPException(500, "Upload failed", ret.raised))
    ELSE req' = [req EXCEPT ![r] =
            [me EXCEPT !.pc = "push",
                       !.photo = <<Photo(Uuid4(me.no), ret.result)>>,
                       !.db_calls = Append(@, "update_one")]]

\* what upload_file.read() can do: return the payload (None) or raise
ReadOutcomes == {None, "OSError"}

\* what Image.open / image.save can do with a payload that is an image:
\* succeed (None) or raise
PillowOutcomes == {None, "MemoryError"}

\* file.read() returns or raises; the Pillow block runs;
\* telegram_service.upload_photo is called: in mock mode it returns at once,
\* in production mode the sendPhoto request is sent
UploadNormalize(r, payloads, reads, pillows) ==
    /\ req[r].pc = "read"
    /\ \E b \in payloads, read_error \in reads, pillow_error \in pillows :
         LET me == [req[r] EXCEPT !.payload = b, !.decoded = TRUE] IN
         IF read_error # None
         THEN Finish(r, [req[r] EXCEPT !.fault = read_error],
                     HTTPException(500, "Upload failed", read_error))
         ELSE IF ~Decodes(b)
         THEN Finish(r, me, HTTPException(400, "Invalid image file",
                                          "UnidentifiedImageError"))
         ELSE IF pillow_error # None
         THEN Finish(r, [me EXCEPT !.fault = pillow_error],
                     HTTPException(400, "Invalid image file", pillow_error))
         ELSE LET up == [me EXCEPT !.file_content = Normalize(b),
                                   !.storage = TRUE] IN
              IF telegram_service.mock_mode
              THEN AfterUpload(r, up,
                       Returned(MockUpload(up.file_content, "image/png")))
              ELSE req' = [req EXCEPT ![r] = [up EXCEPT !.pc = "sendPhoto"]]
    /\ UNCHANGED <<environ, telegram_service, update_req, service_call, categories, created,
                   channel, started, deletes, cat_ops, last_delete>>

\* production mode: the answer to POST /sendPhoto arrives
TelegramSendPhoto(r, outcomes) ==
    /\ req[r].pc = "sendPhoto"
    /\ \E outcome \in outcomes :
         LET me == [req[r] EXCEPT !.send = outcome] IN
         IF outcome = "ok"
         THEN /\ channel' = channel \cup {RemoteFileId(me.no)}
              /\ req' = [req EXCEPT ![r] =
                    [me EXCEPT !.pc = "getFile",
                               !.file_id = RemoteFileId(me.no)]]
         ELSE /\ AfterUpload(r, me,
                     UploadPhotoExcept(me.file_content, "image/png",
                                       SendPhotoError(outcome)))
              /\ UNCHANGED channel
    /\ UNCHANGED <<environ, telegram_service, update_req, service_call, categories, created, started,
                   deletes, cat_ops, last_delete>>

\* production mode: the answer to GET /getFile arrives
TelegramGetFile(r, outcomes) ==
    /\ req[r].pc = "getFile"
    /\ \E outcome \in outcomes :
         LET me == [req[r] EXCEPT !.getfile = outcome]
             file_url == GetFileUrl(telegram_service, outcome,
                                    <<"photos/", me.file_id>>)
         IN  IF file_url = NoneStr
             THEN AfterUpload(r, me,
                      UploadPhotoExcept(me.file_content, "image/png",
                                        "Failed to get file URL"))
             ELSE AfterUpload(r, me,
                      Returned([file_url |-> file_url,
                                telegram_file_id |-> me.file_id,
                                file_size |-> Size(me.file_content),
                                mime_type |-> "image/png"]))
    /\ UNCHANGED <<environ, telegram_service, update_req, service_call, categories, created, channel,
                   started, deletes, cat_ops, last_delete>>

\* the store runs the $push; the handler checks matched_count and answers
UploadPush(r) ==
    /\ req[r].pc = "push"
    /\ LET result == UpdateOnePush(categories, req[r].category_id,
                                   Field(req[r].slot), req[r].photo[1])
       IN  /\ categories' = result.docs
           /\ IF result.matched_count = 0
              THEN Finish(r, req[r], HTTPException(404, "Category not found", None))
              ELSE Finish(r, req[r], UploadResponse)
    /\ UNCHANGED <<environ, telegram_service, update_req, service_call, created, channel, started,
                   deletes, cat_ops, last_delete>>

\* the response has been sent; the handler's frame is gone
UploadReturn(r) ==
    /\ req[r].pc = "done"
    /\ req' = [req EXCEPT ![r] = IdleReq]
    /\ UNCHANGED <<environ, telegram_service, update_req, service_call, categories, created, channel,
                   started, deletes, cat_ops, last_delete>>

\* a test of photo_type that lets every value pass
AnyPhotoType(photo_type) == TRUE

\* photo_type in ["before", "after"]
ValidPhotoType(photo_type) == photo_type \in {"before", "after"}

\* delete_photo(category_id, photo_id, photo_type)
delete_photo ==
    /\ deletes < MaxDeletes
    /\ deletes' = deletes + 1
    /\ \E category_id \in CategoryIds, photo_id \in 1 .. MaxGalleryUploads,
          photo_type \in Slots \cup {"both"} :
         LET call == [NoDelete EXCEPT !.category_id = category_id,
                                      !.photo_id = photo_id,
                                      !.photo_type = photo_type]
         IN  IF ~ValidPhotoType(photo_type)
             THEN /\ last_delete' = [call EXCEPT !.status = 400]
                  /\ UNCHANGED categories
             ELSE LET result == UpdateOnePull(categories, category_id,
                                              Field(photo_type), photo_id)
                  IN  /\ categories' = result.docs
                      /\ last_delete' =
                           [call EXCEPT !.db_calls = <<"update_one">>,
                                        !.status = IF result.matched_count = 0
                                                   THEN 404 ELSE 200]
    /\ UNCHANGED <<environ, telegram_service, update_req, service_call, created, req, channel, started,
                   cat_ops>>

\* create_category: insert_one of a document with a fresh id
create_category ==
    /\ cat_ops < MaxCategoryOps
    /\ cat_ops' = cat_ops + 1
    /\ \E id \in CategoryIds \ created :
         /\ categories' = [c \in DOMAIN categories \cup {id} |->
                              IF c = id THEN Category("n1", << >>)
                              ELSE categories[c]]
         /\ created' = created \cup {id}
    /\ UNCHANGED <<environ, telegram_service, update_req, service_call, req, channel, started, deletes,
                   last_delete>>

\* delete_category: delete_one of a document that exists (a missing one
\* answers 404 and changes nothing)
delete_category ==
    /\ cat_ops < MaxCategoryOps
    /\ cat_ops' = cat_ops + 1
    /\ \E id \in DOMAIN categories :
         categories' = [c \in DOMAIN categories \ {id} |-> categories[c]]
    /\ UNCHANGED <<environ, telegram_service, update_req, service_call, created, req, channel, started,
                   deletes, last_delete>>

\* the bodies of the update_category requests: CategoryUpdate with each
\* field given or left None
CategoryUpdates ==
    [name : {None, "n2"}, sentences : {NoneStr, <<"s1">>}]

\* update_category up to the answer of update_one: a body without fields
\* ends with 400, an id that matches no document with 404
update_category ==
    /\ update_req.pc = "idle"
    /\ cat_ops < MaxCategoryOps
    /\ cat_ops' = cat_ops + 1
    /\ \E category_id \in CategoryIds, category \in CategoryUpdates :
         LET me == [NoUpdate EXCEPT !.category_id = category_id,
                                    !.update_data = category]
         IN  IF category.name = None /\ category.sentences = NoneStr
             THEN /\ update_req' = [me EXCEPT !.pc = "done", !.status = 400]
                  /\ UNCHANGED categories
             ELSE LET result == UpdateOneSet(categories, category_id, category)
                  IN  /\ categories' = result.docs
                      /\ update_req' =
                            IF result.matched_count = 0
                            THEN [me EXCEPT !.pc = "done", !.status = 404]
                            ELSE [me EXCEPT !.pc = "find"]
    /\ UNCHANGED <<environ, telegram_service, service_call, created, req,
                   channel, started, deletes, last_delete>>

\* update_category: find_one answers and the document read is returned (a
\* document deleted in between reads as None, which the response model
\* refuses)
update_category_find ==
    /\ update_req.pc = "find"
    /\ update_req' =
          IF update_req.category_id \in DOMAIN categories
          THEN [update_req EXCEPT
                   !.pc = "done", !.status = 200,
                   !.returned = <<categories[update_req.category_id]>>]
          ELSE [update_req EXCEPT !.pc = "done", !.status = 500]
    /\ UNCHANGED <<environ, telegram_service, service_call, categories,
                   created, req, channel, started, deletes, cat_ops,
                   last_delete>>

\* update_category: the response has been sent
update_category_return ==
    /\ update_req.pc = "done"
    /\ update_req' = NoUpdate
    /\ UNCHANGED <<environ, telegram_service, service_call, categories,
                   created, req, channel, started, deletes, cat_ops,
                   last_delete>>

\* the filenames given to upload_photo by a direct caller
DirectFilenames ==
    { <<"x", ".", "p", "n", "g">>, <<"y", ".", "j", "p", "g">> }

\* telegram_service.upload_photo(file_content, filename, mime_type) called
\* directly, not from an upload handler: the whole call, in production mode
\* with the answers of sendPhoto and getFile
ServiceUploadPhoto(payloads, sends, getfiles, max_uploads) ==
    /\ started < max_uploads
    /\ started' = started + 1
    /\ \E file_content \in payloads, filename \in DirectFilenames,
          mime_type \in ContentTypes \ {None} :
         LET call == [op |-> "upload_photo",
                      args |-> [file_content |-> file_content,
                                filename |-> filename,
                                mime_type |-> mime_type],
                      ret |-> Returned(NoResult),
                      before |-> IF service_call.op = "upload_photo"
                                 THEN [args |-> service_call.args,
                                       ret |-> service_call.ret]
                                 ELSE [none |-> TRUE]]
             file_id == RemoteFileId(started + 1)
         IN  IF telegram_service.mock_mode
             THEN /\ service_call' =
                        [call EXCEPT !.ret =
                            Returned(MockUpload(file_content, mime_type))]
                  /\ UNCHANGED channel
             ELSE \E send \in sends :
                    IF send # "ok"
                    THEN /\ service_call' =
                               [call EXCEPT !.ret =
                                   UploadPhotoExcept(file_content, mime_type,
                                                     SendPhotoError(send))]
                         /\ UNCHANGED channel
                    ELSE /\ channel' = channel \cup {file_id}
                         /\ \E getfile \in getfiles :
                              LET file_url ==
                                      GetFileUrl(telegram_service, getfile,
                                                 <<"photos/", file_id>>)
                              IN  service_call' =
                                    [call EXCEPT !.ret =
                                        IF file_url = NoneStr
                                        THEN UploadPhotoExcept(
                                                 file_content, mime_type,
                                                 "Failed to get file URL")
                                        ELSE Returned(
                                                 [file_url |-> file_url,
                                                  telegram_file_id |-> file_id,
                                                  file_size |-> Size(file_content),
                                                  mime_type |-> mime_type])]
    /\ UNCHANGED <<environ, telegram_service, update_req, categories, created, req,
                   deletes, cat_ops, last_delete>>

\* FileHandler.validate_file(file) called on an uploaded file
CallValidateFile(files) ==
    /\ \E file \in files :
         service_call' = [op |-> "validate_file",
                          args |-> [file |-> file],
                          ret |-> [error |-> validate_file(file)]]
    /\ UNCHANGED <<environ, telegram_service, update_req, categories, created, req,
                   channel, started, deletes, cat_ops, last_delete>>

\* whether the filetype library can be imported
Sniffers == {"installed", "missing"}

\* FileHandler.validate_and_read_upload(upload_file) called on an uploaded
\* file with a payload
CallValidateAndReadUpload(files, payloads) ==
    /\ \E file \in files, b \in payloads, read_error \in ReadOutcomes,
          sniffer \in Sniffers :
         service_call' =
            [op |-> "validate_and_read_upload",
             args |-> [file |-> file, payload |-> b,
                       read_error |-> read_error, sniffer |-> sniffer],
             ret |-> validate_and_read_upload(file, b, read_error, sniffer)]
    /\ UNCHANGED <<environ, telegram_service, update_req, categories, created, req,
                   channel, started, deletes, cat_ops, last_delete>>

\* telegram_service.delete_photo(file_id) called with the file id of a
\* listed photo, of a file of the channel, or with an id Telegram never gave
TelegramDeletePhoto ==
    /\ \E file_id \in { p.telegram_file_id : p \in PhotosOf(categories) }
                        \cup channel \cup { RemoteFileId(0) } :
         LET result == DeletePhoto(telegram_service, channel, file_id)
         IN  /\ service_call' = [op |-> "delete_photo",
                                 args |-> [file_id |-> file_id],
                                 ret |-> [ok |-> result.ok]]
             /\ channel' = result.channel
    /\ UNCHANGED <<environ, telegram_service, update_req, categories, created, req,
                   started, deletes, cat_ops, last_delete>>

\* telegram_service.validate_file(file_content, mime_type) called with the
\* default max_size_mb
CallTelegramValidateFile(payloads) ==
    /\ \E file_content \in payloads, mime_type \in ContentTypes :
         service_call' =
            [op |-> "TelegramService.validate_file",
             args |-> [file_content |-> file_content, mime_type |-> mime_type],
             ret |-> TelegramValidateFile(file_content, mime_type,
                                          DEFAULT_MAX_SIZE_MB)]
    /\ UNCHANGED <<environ, telegram_service, update_req, categories, created, req,
                   channel, started, deletes, cat_ops, last_delete>>

\* ------------------------------------------------------- specifications
\* the uploaded files of the clients: every filename with every declared type
Files == [filename : Filenames, content_type : ContentTypes]

PngFile ==
    [filename |-> <<"x", ".", "p", "n", "g">>, content_type |-> "image/png"]

JpgFile ==
    [filename |-> <<"x", ".", "p", "n", "g", ".", "j", "p", "g">>,
     content_type |-> "image/png"]

\* the values of TELEGRAM_BOT_TOKEN of a mock and of a production deployment
PlainTokens == { NoneStr, <<"7", ":", "A">> }

\* Spec: concurrent uploads of one picture, well named or not, and category
\* creation / deletion, with a Telegram that answers
Init == InitWith(PlainTokens)

Next ==
    \/ \E r \in Requests : UploadValidate(r, {PngFile, JpgFile}, MaxUploads)
    \/ \E r \in Requests : UploadNormalize(r, {3}, {None}, {None})
    \/ \E r \in Requests : TelegramSendPhoto(r, {"ok"})
    \/ \E r \in Requests : TelegramGetFile(r, {"ok"})
    \/ \E r \in Requests : UploadPush(r)
    \/ \E r \in Requests : UploadReturn(r)
    \/ create_category
    \/ delete_category

Spec == Init /\ [][Next]_vars

\* SpecInputs: one upload at a time, over every file, every payload, every
\* token and every answer of Telegram
InitInputs == InitWith(EnvTokens)

NextInputs ==
    \/ UploadValidate(1, Files, MaxInputUploads)
    \/ UploadNormalize(1, ByteStrings, ReadOutcomes, PillowOutcomes)
    \/ TelegramSendPhoto(1, SendOutcomes)
    \/ TelegramGetFile(1, GetFileOutcomes)
    \/ UploadPush(1)
    \/ UploadReturn(1)

SpecInputs == InitInputs /\ [][NextInputs]_vars

\* SpecGallery: uploads of two pictures, one at a time, and photo deletion
InitGallery == InitWith(PlainTokens)

NextGallery ==
    \/ UploadValidate(1, {PngFile}, MaxGalleryUploads)
    \/ UploadNormalize(1, {3, 4}, {None}, {None})
    \/ TelegramSendPhoto(1, {"ok"})
    \/ TelegramGetFile(1, {"ok"})
    \/ UploadPush(1)
    \/ UploadReturn(1)
    \/ delete_photo

SpecGallery == InitGallery /\ [][NextGallery]_vars

\* SpecService: the functions of telegram_service called directly, in mock
\* and in production mode, next to uploads of one picture

InitService == InitWith(PlainTokens)

NextService ==
    \/ UploadValidate(1, {PngFile}, MaxServiceUploads)
    \/ UploadNormalize(1, {3}, {None}, {None})
    \/ TelegramSendPhoto(1, {"ok"})
    \/ TelegramGetFile(1, {"ok"})
    \/ UploadPush(1)
    \/ UploadReturn(1)
    \/ ServiceUploadPhoto(ByteStrings, {"ok", "timeout"}, {"ok", "exception"},
                          MaxServiceUploads)
    \/ TelegramDeletePhoto

SpecService == InitService /\ [][NextService]_vars

\* SpecValidate: the validators of file_handler.py and telegram_service.py
\* applied to every file and every payload
InitValidate == InitWith(PlainTokens)

NextValidate ==
    \/ CallValidateFile(Files)
    \/ CallValidateAndReadUpload(Files, ByteStrings)
    \/ CallTelegramValidateFile(ByteStrings)

SpecValidate == InitValidate /\ [][NextValidate]_vars

\* SpecRemove: a mock deployment (TELEGRAM_BOT_TOKEN not set) with uploads
\* of one picture, one at a time, to two categories, and photo deletion
InitRemove == InitWith({NoneStr})

NextRemove ==
    \/ UploadValidate(1, {PngFile}, MaxGalleryUploads)
    \/ UploadNormalize(1, {3}, {None}, {None})
    \/ UploadPush(1)
    \/ UploadReturn(1)
    \/ delete_photo
    \/ create_category

SpecRemove == InitRemove /\ [][NextRemove]_vars

\* SpecUpdate: a mock deployment with concurrent uploads of one picture
\* and update_category requests
InitUpdate == InitWith({NoneStr})

NextUpdate ==
    \/ \E r \in Requests : UploadValidate(r, {PngFile}, MaxUpdateUploads)
    \/ \E r \in Requests : UploadNormalize(r, {3}, {None}, {None})
    \/ \E r \in Requests : UploadPush(r)
    \/ \E r \in Requests : UploadReturn(r)
    \/ update_category
    \/ update_category_find
    \/ update_category_return

SpecUpdate == InitUpdate /\ [][NextUpdate]_vars

\* ---------------------------------------------------------------- claims
\* the storage upload of request q has fully succeeded
StorageSucceeded(q) ==
    /\ q.storage
    /\ q.photo # << >>
    /\ q.photo[1].file_url # NoneStr
    /\ IF telegram_service.mock_mode
       THEN q.send = None /\ q.getfile = None
       ELSE q.send = "ok" /\ q.getfile = "ok"

\* C1: a Photo is appended to a category only by a request whose storage
\* upload has fully succeeded (production: sendPhoto and getFile both
\* succeeded; mock: the result was synthesized), and a request that ends
\* in an error leaves every photo list as it was and has no Photo of its
\* own in any list.
C1_NoPartialPhoto ==
    /\ [](\A r \in Requests :
            (req[r].pc = "done" /\ req[r].response.status # 200)
                => \A p \in PhotosOf(categories) : p.id # Uuid4(req[r].no))
    /\ [][\A r \in Requests :
            /\ (req'[r] # req[r] /\ categories' # categories)
                 => /\ StorageSucceeded(req[r])
                    /\ req'[r].response.status = 200
                    /\ PhotosOf(categories') = PhotosOf(categories)
                                                  \cup {req[r].photo[1]}
            /\ (req'[r] # req[r] /\ req'[r].pc = "done"
                  /\ req'[r].response.status # 200)
                 => categories' = categories]_vars

\* C1 witness: after a first upload was recorded, a production-mode request
\* whose sendPhoto succeeded and whose getFile failed has ended in an error
C1_Witness ==
    /\ req[1].pc = "done"
    /\ req[1].send = "ok"
    /\ req[1].getfile = "http_error"
    /\ req[1].response.status = 500
    /\ req[1].no = 2
    /\ \E p \in PhotosOf(categories) : p.id = Uuid4(1)

\* the text after the last '.' of s, s itself when s has no '.'
RECURSIVE AfterLastDot(_)
AfterLastDot(s) ==
    IF s = << >> THEN << >>
    ELSE IF s[Len(s)] = "." THEN << >>
    ELSE AfterLastDot(SubSeq(s, 1, Len(s) - 1)) \o << s[Len(s)] >>

\* the filename is absent or empty, or its extension is not "png" in any
\* letter case
NotPngName(filename) ==
    \/ filename = NoneStr
    \/ filename = << >>
    \/ ~HasDot(filename)
    \/ AfterLastDot(filename) \notin
          { <<a, b, c>> : a \in {"p", "P"}, b \in {"n", "N"}, c \in {"g", "G"} }

\* C2: an upload whose filename is absent or empty or has an extension
\* other than png is refused by validate_file; the request ends with a
\* client error and the storage backend is never invoked for it.
C2_BadExtensionRejected ==
    \A r \in Requests :
        (req[r].pc # "idle" /\ NotPngName(req[r].file.filename))
            => /\ validate_file(req[r].file) # None
               /\ req[r].pc = "done"
               /\ req[r].response.status \in 400 .. 499
               /\ ~req[r].decoded
               /\ ~req[r].storage
               /\ req[r].photo = << >>
               /\ req[r].db_calls = << >>

\* C2 witness: an upload named x.png.jpg has been refused with 400
C2_Witness ==
    /\ req[1].pc = "done"
    /\ req[1].file.filename = <<"x", ".", "p", "n", "g", ".", "j", "p", "g">>
    /\ req[1].response.status = 400
    /\ req[1].response.detail = "Invalid file extension"

\* C3: an upload whose payload is larger than MAX_FILE_SIZE is refused with
\* a client error before the Pillow block runs: neither the image decoder
\* nor the storage backend is invoked for it.
C3_OversizeRejectedBeforeNormalize ==
    \A r \in Requests :
        (req[r].payload # NoBytes /\ Size(req[r].payload) > MAX_FILE_SIZE)
            => /\ ~req[r].decoded
               /\ ~req[r].storage
               /\ req[r].pc = "done"
               /\ req[r].response.status \in 400 .. 499

\* C4: the $push of an upload whose category id matches no document changes
\* nothing in the collection (no list, no new document) and the request
\* ends with 404; the handler has issued the one update_one and no other
\* call to the collection.
C4_AppendToMissingCategory ==
    [][\A r \in Requests :
          (req[r].pc = "push" /\ req'[r].pc = "done"
             /\ req[r].category_id \notin DOMAIN categories)
            => /\ categories' = categories
               /\ req'[r].response.status = 404
               /\ req'[r].response.detail = "Category not found"
               /\ ~req'[r].response.success
               /\ req'[r].db_calls = <<"update_one">>]_vars

\* C4 witness: an upload to a category id that matches no document has
\* ended with 404 after its one update_one
C4_Witness ==
    \E r \in Requests :
        /\ req[r].pc = "done"
        /\ req[r].response.status = 404
        /\ req[r].category_id \notin DOMAIN categories
        /\ req[r].db_calls = <<"update_one">>
        /\ req[r].storage

\* C5: when the $push of an upload to an existing category succeeds, the
\* slot's list read afterwards is the list read before with the new Photo
\* added at its end: the new entry is last and the earlier entries keep
\* their places.
C5_AppendThenList ==
    [][\A r \in Requests :
          (req[r].pc = "push" /\ req'[r].pc = "done"
             /\ req[r].category_id \in DOMAIN categories)
            => LET c == req[r].category_id
                   f == IF req[r].slot = "before" THEN "photos_before"
                        ELSE "photos_after"
                   old == categories[c][f]
                   new == categories'[c][f]
               IN  /\ req'[r].response.status = 200
                   /\ Len(new) = Len(old) + 1
                   /\ new[Len(new)].id = req[r].photo[1].id
                   /\ \A i \in 1 .. Len(old) : new[i] = old[i]]_vars

\* C5 witness: an upload has just been appended behind two earlier photos
C5_Witness ==
    /\ req[1].pc = "done"
    /\ req[1].response.status = 200
    /\ req[1].category_id = "c1"
    /\ req[1].slot = "before"
    /\ Len(categories["c1"].photos_before) = 3
    /\ categories["c1"].photos_before[3].id = req[1].photo[1].id

\* the photo id occurs in the list
HasId(list, photo_id) == \E i \in 1 .. Len(list) : list[i].id = photo_id

\* C6: delete_photo with a photo id that is not in the slot's list of an
\* existing category answers 200 and leaves the list as it is; after any
\* accepted delete_photo the id is not in the list, so a second removal
\* changes nothing; the answer is 404 exactly when the category id matches
\* no document.
C6_RemoveIdempotent ==
    [][(deletes' = deletes + 1 /\ last_delete'.photo_type \in Slots)
         => LET d == last_delete'
                c == d.category_id
                f == IF d.photo_type = "before" THEN "photos_before"
                     ELSE "photos_after"
            IN  /\ (d.status = 404) <=> (c \notin DOMAIN categories)
                /\ d.status \in {200, 404}
                /\ DOMAIN categories' = DOMAIN categories
                /\ c \notin DOMAIN categories => categories' = categories
                /\ c \in DOMAIN categories =>
                     /\ ~HasId(categories'[c][f], d.photo_id)
                     /\ ~HasId(categories[c][f], d.photo_id)
                            => categories' = categories]_vars

\* C6 witness: with the one uploaded photo still in the list, the id of a
\* photo that was never in it has been removed from it with answer 200
C6_Witness ==
    /\ deletes = 2
    /\ started = 1
    /\ req[1].pc = "idle"
    /\ Len(categories["c1"].photos_before) = 1
    /\ categories["c1"].photos_before[1].id = Uuid4(1)
    /\ last_delete.status = 200
    /\ last_delete.category_id = "c1"
    /\ last_delete.photo_type = "before"
    /\ last_delete.photo_id = 2

\* C7: two upload requests in flight together for the same category and
\* slot both get their Photo into the list exactly once, whatever the
\* interleaving, and each $push puts its Photo behind all photos pushed
\* before it, so the list is in the order in which the pushes completed.
C7_ConcurrentAppends ==
    /\ [](\A r1, r2 \in Requests :
            (r1 # r2
               /\ req[r1].pc = "done" /\ req[r1].response.status = 200
               /\ req[r2].pc = "done" /\ req[r2].response.status = 200
               /\ req[r1].category_id = req[r2].category_id
               /\ req[r1].slot = req[r2].slot
               /\ req[r1].category_id \in DOMAIN categories)
              => LET list == categories[req[r1].category_id]
                                 [IF req[r1].slot = "before"
                                  THEN "photos_before" ELSE "photos_after"]
                 IN  /\ Cardinality({i \in 1 .. Len(list) :
                                        list[i] = req[r1].photo[1]}) = 1
                     /\ Cardinality({i \in 1 .. Len(list) :
                                        list[i] = req[r2].photo[1]}) = 1)
    /\ [][\A r \in Requests :
            (req[r].pc = "push" /\ req'[r].pc = "done"
               /\ req'[r].response.status = 200)
              => \E c \in DOMAIN categories, f \in {"photos_before", "photos_after"} :
                    categories' = [categories EXCEPT ![c][f] =
                                       categories[c][f] \o req[r].photo]]_vars

\* C7 witness: two requests for the same list have both ended with 200 and
\* the request submitted second is listed first
C7_Witness ==
    /\ req[1].pc = "done" /\ req[1].response.status = 200
    /\ req[2].pc = "done" /\ req[2].response.status = 200
    /\ req[1].no = 1 /\ req[2].no = 2
    /\ req[1].category_id = "c1" /\ req[2].category_id = "c1"
    /\ req[1].slot = "after" /\ req[2].slot = "after"
    /\ "c1" \in DOMAIN categories
    /\ Len(categories["c1"].photos_after) = 2
    /\ categories["c1"].photos_after[1] = req[2].photo[1]
    /\ categories["c1"].photos_after[2] = req[1].photo[1]

\* C8: in production mode, when sendPhoto succeeded and getFile failed in
\* any way, upload_photo raises "Failed to get file URL", an error no
\* failed sendPhoto raises, returns no result, and the request ends with a
\* server error without a Photo and without a call to the collection.
C8_ResolutionFailure ==
    \A r \in Requests :
        (req[r].send = "ok" /\ req[r].getfile \in GetFileOutcomes \ {"ok"})
            => /\ req[r].pc = "done"
               /\ req[r].response.status = 500
               /\ ~req[r].response.success
               /\ req[r].response.error = "Failed to get file URL"
               /\ \A o \in SendOutcomes \ {"ok"} :
                      SendPhotoError(o) # req[r].response.error
               /\ req[r].photo = << >>
               /\ req[r].db_calls = << >>
               /\ \A p \in PhotosOf(categories) : p.id # Uuid4(req[r].no)

\* C8 witness: getFile raised after a successful sendPhoto and the request
\* has ended with 500
C8_Witness ==
    /\ req[1].pc = "done"
    /\ req[1].send = "ok"
    /\ req[1].getfile = "exception"
    /\ req[1].response.status = 500
    /\ req[1].file_id \in channel

\* C9: in production mode every failed sendPhoto (HTTP error, ok = false,
\* timeout, malformed answer) ends the request with the server error
\* "Upload failed" carrying the error, without a success envelope and
\* without a Photo; and no Photo made in production mode has the mock
\* result's inline data URL or hash-derived id.
C9_UploadErrorsPropagate ==
    ~telegram_service.mock_mode =>
        /\ \A r \in Requests :
              /\ req[r].send \in SendOutcomes \ {"ok"}
                   => /\ req[r].pc = "done"
                      /\ req[r].response.status = 500
                      /\ req[r].response.detail = "Upload failed"
                      /\ req[r].response.error # None
                      /\ req[r].send \in {"http_error", "ok_false"}
                           => req[r].response.error = "Telegram API error"
                      /\ ~req[r].response.success
                      /\ req[r].photo = << >>
                      /\ req[r].db_calls = << >>
              /\ req[r].response.success
                   => req[r].send = "ok" /\ req[r].getfile = "ok"
        /\ \A p \in PhotosOf(categories)
                      \cup UNION { {req[r].photo[i] : i \in 1 .. Len(req[r].photo)}
                                   : r \in Requests } :
              /\ p.file_url[1] = "https://api.telegram.org/file/bot"
              /\ p.telegram_file_id[1] = "file_id"
              /\ p.telegram_file_id \in channel

\* C9 witness: a sendPhoto that timed out has ended its request with 500
\* while an earlier upload is in the list
C9_Witness ==
    /\ req[1].pc = "done"
    /\ req[1].send = "timeout"
    /\ req[1].response.status = 500
    /\ req[1].response.error = "TimeoutError"
    /\ PhotosOf(categories) # {}

\* the variable is set and its value begins with the five characters mock_
SetToMockToken(env) ==
    /\ env # NoneStr
    /\ Len(env) >= 5
    /\ env[1] = "m" /\ env[2] = "o" /\ env[3] = "c" /\ env[4] = "k"
    /\ env[5] = "_"

\* C10 as stated: the mode never changes, and mock mode is selected exactly
\* when TELEGRAM_BOT_TOKEN is absent.
C10_MockIffAbsent ==
    telegram_service.mock_mode <=> (environ = NoneStr)

\* C10 amended: the mode never changes, and mock mode is selected exactly
\* when TELEGRAM_BOT_TOKEN is absent or its value begins with "mock_"; any
\* other value that is present, the empty one too, selects production mode.
C10_MockIffAbsentOrMockToken ==
    /\ [](telegram_service.mock_mode
            <=> (environ = NoneStr \/ SetToMockToken(environ)))
    /\ [](environ # NoneStr => telegram_service.bot_token = environ)
    /\ [][telegram_service' = telegram_service /\ environ' = environ]_vars

\* C10 witness: with the token set to mock_x an upload has been recorded
\* with the mock result
C10_Witness ==
    /\ environ = <<"m", "o", "c", "k", "_", "x">>
    /\ telegram_service.mock_mode
    /\ req[1].pc = "done"
    /\ req[1].response.status = 200
    /\ req[1].photo[1].file_url[1] = "data:"

\* C11: two direct mock uploads, one after the other, return the same file
\* id exactly when their bytes are the same, whatever the filenames and the
\* mime types are: the id is a function of the bytes alone (md5 taken as
\* injective).
C11_MockDeterminism ==
    (/\ telegram_service.mock_mode
     /\ service_call.op = "upload_photo"
     /\ "args" \in DOMAIN service_call.before)
        => /\ service_call.ret.raised = None
           /\ service_call.before.ret.raised = None
           /\ (service_call.args.file_content
                   = service_call.before.args.file_content)
              <=> (service_call.ret.result.telegram_file_id
                      = service_call.before.ret.result.telegram_file_id)

\* C11 witness: the same bytes were uploaded twice in mock mode, under
\* different filenames and mime types, and both calls returned the same id
C11_Witness ==
    /\ telegram_service.mock_mode
    /\ service_call.op = "upload_photo"
    /\ "args" \in DOMAIN service_call.before
    /\ service_call.args.file_content = 3
    /\ service_call.before.args.file_content = 3
    /\ service_call.args.filename # service_call.before.args.filename
    /\ service_call.args.mime_type # service_call.before.args.mime_type
    /\ service_call.ret.result.telegram_file_id
          = service_call.before.ret.result.telegram_file_id

\* C12: delete_photo called with a photo_type other than "before" and
\* "after" answers with the client error 400 without any call to the
\* collection, and no category document is changed.  (The slot of an
\* upload is fixed by the route, upload_photo_before or upload_photo_after,
\* and cannot have another value.)
C12_BadSlotRejected ==
    [][(deletes' = deletes + 1
          /\ last_delete'.photo_type \notin {"before", "after"})
         => /\ last_delete'.status = 400
            /\ last_delete'.db_calls = << >>
            /\ categories' = categories]_vars

\* C12 witness: with a photo in the before list of c1, delete_photo for
\* that photo with photo_type "both" was answered 400 and the photo is
\* still listed
C12_Witness ==
    /\ last_delete.photo_type = "both"
    /\ last_delete.category_id = "c1"
    /\ last_delete.photo_id = 1
    /\ last_delete.status = 400
    /\ HasId(categories["c1"].photos_before, 1)

\* C13: an upload whose payload has length zero ends with the client error
\* "File is empty" before the image decoder is tried: no decode attempt,
\* no storage call and no Photo.
C13_EmptyRejectedBeforeDecode ==
    \A r \in Requests :
        (req[r].payload # NoBytes /\ Size(req[r].payload) = 0)
            => /\ req[r].pc = "done"
               /\ req[r].response.status \in 400 .. 499
               /\ req[r].response.detail = "File is empty"
               /\ ~req[r].decoded
               /\ ~req[r].storage
               /\ req[r].photo = << >>

\* the declared content type is present and is not image/png
DeclaredNotPng(file) ==
    /\ file.content_type # None
    /\ file.content_type # ""
    /\ file.content_type # "image/png"

\* C14: a file whose declared content type is present and is not image/png
\* is refused by validate_file and by validate_and_read_upload, whatever
\* its bytes are.
C14_DeclaredTypeRejected ==
    /\ (service_call.op = "validate_file"
           /\ DeclaredNotPng(service_call.args.file))
         => service_call.ret.error # None
    /\ (service_call.op = "validate_and_read_upload"
           /\ DeclaredNotPng(service_call.args.file))
         => service_call.ret.status \in 400 .. 499

\* C15: every Photo in every list of every category has a file_url that is
\* set and not empty, and has a telegram_file_id only when it was made in
\* production mode: the Photos made in mock mode have telegram_file_id None.
C15_UrlSetIdOnlyFromReal ==
    \A p \in PhotosOf(categories) :
        /\ p.file_url # NoneStr
        /\ p.file_url # << >>
        /\ telegram_service.mock_mode => p.telegram_file_id = NoneStr

\* C16: a direct mock upload raises exactly when validate_file of the
\* service finds the payload empty or larger than 10 MiB, and returns a
\* result for every other payload.
C16_MockFailsOnSizeOnly ==
    (telegram_service.mock_mode /\ service_call.op = "upload_photo")
        => LET v == TelegramValidateFile(service_call.args.file_content,
                                         service_call.args.mime_type,
                                         DEFAULT_MAX_SIZE_MB)
           IN  (service_call.ret.raised # None)
                 <=> (v.message[1] \in {"File too large. Maximum size is ",
                                         "File is empty"})

\* C17: in every category the ids of the photos of the two lists together
\* are pairwise different, after any uploads and removals: no id occurs
\* twice in a list and no id occurs in both lists.
C17_PhotoIdsUnique ==
    \A c \in DOMAIN categories :
        LET all == categories[c].photos_before \o categories[c].photos_after
        IN  \A i, j \in 1 .. Len(all) : all[i].id = all[j].id => i = j

\* C17 witness: after a removal, c1 lists two uploads of the same bytes in
\* its before list and a third upload in its after list
C17_Witness ==
    /\ deletes > 0
    /\ last_delete.status = 200
    /\ Len(categories["c1"].photos_before) = 2
    /\ Len(categories["c1"].photos_after) = 1
    /\ categories["c1"].photos_before[1].file_url
          = categories["c1"].photos_before[2].file_url
    /\ categories["c1"].photos_before[1].id
          # categories["c1"].photos_before[2].id
    /\ categories["c1"].photos_after[1].id
          # categories["c1"].photos_before[1].id

\* C18: an upload in which read() or the Pillow block raised an error that
\* is no rejection of the file ends with a server error (5xx) whose text
\* carries nothing of the exception.
C18_FaultIsGenericServerError ==
    \A r \in Requests :
        (req[r].pc = "done" /\ req[r].fault # None)
            => /\ req[r].response.status \in 500 .. 599
               /\ req[r].response.error = None

\* C19: telegram_service.delete_photo(file_id) returns True for every file
\* id in mock and in production mode, and the call changes nothing: not
\* the mode of the service, not a list of a category, not the files of the
\* channel.
C19_StorageDeleteNoEffect ==
    /\ [](service_call.op = "delete_photo" => service_call.ret.ok)
    /\ [][(service_call'.op = "delete_photo" /\ req' = req
              /\ started' = started)
            => /\ telegram_service' = telegram_service
               /\ categories' = categories
               /\ channel' = channel]_vars

\* C19 witness: in production mode delete_photo was called with the file id
\* of a listed photo and returned True; the photo is listed and its file is
\* in the channel
C19_Witness ==
    /\ ~telegram_service.mock_mode
    /\ service_call.op = "delete_photo"
    /\ service_call.ret.ok
    /\ service_call.args.file_id \in channel
    /\ \E p \in PhotosOf(categories) :
           p.telegram_file_id = service_call.args.file_id

\* C20: an accepted delete_photo on an existing category takes out of the
\* named list the entry whose id is photo_id and nothing else: the other
\* entries stay, in the order they had; the other list, the name and the
\* sentences of the category and all other categories are as before.
C20_RemoveOnlyTheMatch ==
    [][(deletes' = deletes + 1 /\ last_delete'.photo_type \in Slots
          /\ last_delete'.category_id \in DOMAIN categories)
         => LET d == last_delete'
                c == d.category_id
                f == IF d.photo_type = "before" THEN "photos_before"
                     ELSE "photos_after"
                g == IF d.photo_type = "before" THEN "photos_after"
                     ELSE "photos_before"
                old == categories[c][f]
                new == categories'[c][f]
                keep == {i \in 1 .. Len(old) : old[i].id # d.photo_id}
            IN  /\ d.status = 200
                /\ Cardinality((1 .. Len(old)) \ keep) <= 1
                /\ Len(new) = Cardinality(keep)
                /\ \A i \in keep :
                       new[Cardinality({j \in keep : j <= i})] = old[i]
                /\ categories'[c][g] = categories[c][g]
                /\ categories'[c].name = categories[c].name
                /\ categories'[c].sentences = categories[c].sentences
                /\ DOMAIN categories' = DOMAIN categories
                /\ \A o \in DOMAIN categories \ {c} :
                       categories'[o] = categories[o]]_vars

\* C20 witness: photo 2 was removed from the before list of c1, which
\* held photos 1, 2 and 3 or 1 and 2; photo 1 is still first in it, and
\* the lists of c2 hold the third photo
C20_Witness ==
    /\ last_delete.status = 200
    /\ last_delete.category_id = "c1"
    /\ last_delete.photo_type = "before"
    /\ last_delete.photo_id = 2
    /\ deletes = 1
    /\ started = 3
    /\ Len(categories["c1"].photos_before) = 1
    /\ categories["c1"].photos_before[1].id = 1
    /\ "c2" \in DOMAIN categories
    /\ Len(categories["c2"].photos_after) = 1
    /\ categories["c2"].photos_after[1].id = 3

\* C21: no step of update_category changes a photo list or the set of
\* categories; a photo list changes only by the $push of an upload, which
\* adds that upload's Photo at its end; and an upload that was answered
\* 200 has its Photo in its category's list, also when update_category
\* requests for that category ran while it was in flight.
C21_UpdateKeepsPhotos ==
    /\ [][update_req' # update_req
            => /\ DOMAIN categories' = DOMAIN categories
               /\ \A c \in DOMAIN categories :
                     /\ categories'[c].photos_before
                           = categories[c].photos_before
                     /\ categories'[c].photos_after
                           = categories[c].photos_after]_vars
    /\ [][\A c \in DOMAIN categories \cap DOMAIN categories' :
            \A f \in {"photos_before", "photos_after"} :
               categories'[c][f] # categories[c][f]
                 => \E r \in Requests :
                       /\ req[r].pc = "push" /\ req'[r].pc = "done"
                       /\ req[r].category_id = c
                       /\ categories'[c][f]
                            = categories[c][f] \o req[r].photo]_vars
    /\ [](\A r \in Requests :
            (req[r].pc = "done" /\ req[r].response.status = 200)
               => /\ req[r].category_id \in DOMAIN categories
                  /\ req[r].photo[1]
                       \in PhotosOf([c \in {req[r].category_id} |->
                                        categories[c]]))

\* C21 witness: update_one of an update_category request for c1 has set
\* name and sentences and its find_one is still to come, while one upload
\* to c1 is recorded and answered and another has its $push still to come
C21_Witness ==
    /\ update_req.pc = "find"
    /\ update_req.category_id = "c1"
    /\ categories["c1"].name = "n2"
    /\ categories["c1"].sentences = <<"s1">>
    /\ req[1].pc = "done" /\ req[1].response.status = 200
    /\ req[1].category_id = "c1"
    /\ req[1].photo[1] \in PhotosOf(categories)
    /\ req[2].pc = "push" /\ req[2].category_id = "c1"

\* C22: an upload is answered 404 "Category not found" only by the step
\* of its $push, after telegram_service.upload_photo has returned its
\* result, and the $push is the handler's only call to the collection; the
\* Photo made from the result is in no list of any category, and in
\* production mode the file sent to the channel stays there, referenced by
\* no Photo.
C22_StoredBeforeNotFound ==
    /\ [][\A r \in Requests :
            (req'[r].response.status = 404 /\ req[r].response.status # 404)
               => /\ req[r].pc = "push"
                  /\ req[r].storage
                  /\ req[r].photo # << >>
                  /\ req[r].category_id \notin DOMAIN categories]_vars
    /\ [](\A r \in Requests :
            (req[r].pc = "done" /\ req[r].response.status = 404)
               => /\ req[r].storage
                  /\ req[r].db_calls = <<"update_one">>
                  /\ req[r].photo[1].file_url # NoneStr
                  /\ \A p \in PhotosOf(categories) :
                        /\ p.id # req[r].photo[1].id
                        /\ ~telegram_service.mock_mode
                             => p.telegram_file_id
                                  # req[r].photo[1].telegram_file_id
                  /\ ~telegram_service.mock_mode
                       => req[r].photo[1].telegram_file_id \in channel)

\* C22 witness: in production mode c1 was deleted while the first upload
\* to it was in flight: the upload begun second was recorded and answered
\* 200, the first was answered 404 and its file is in the channel
C22_Witness ==
    /\ ~telegram_service.mock_mode
    /\ "c1" \notin DOMAIN categories
    /\ req[1].no = 1 /\ req[1].category_id = "c1"
    /\ req[1].pc = "done" /\ req[1].response.status = 404
    /\ req[2].no = 2 /\ req[2].category_id = "c1"
    /\ req[2].pc = "done" /\ req[2].response.status = 200
    /\ req[1].file_id \in channel

=============================================================================
